---- MODULE Spec2Model ----
(***************************************************************************)
(* A model of OSMtoSQLiteCoordinatesExtractor: the ingestion script        *)
(* (main.py) that turns an OSM extract into a tree of SQLite files         *)
(* (locality address tables and region / country / global inventories),    *)
(* and the two lookup tools that read that tree (address_finder.py,        *)
(* find_coordinates.py).                                                   *)
(*                                                                         *)
(* Text is a sequence of one-character strings.  Characters outside ASCII  *)
(* are written by name ("l_stroke" is U+0142, "A_OGONEK" is U+0104).       *)
(* Numbers stored as REAL are exact rationals <<numerator, denominator>>.  *)
(* SQL NULL and Python None are the empty tuple.                           *)
(***************************************************************************)
EXTENDS Integers, Sequences, FiniteSets, TLC

VARIABLES
    clock,          \* datetime.datetime.now(), in whole seconds
    locality_db,    \* results/<country>/<region>/localities/*.sqlite: path -> file
    inventory,      \* inventory.sqlite files: directory -> rows of its table
    pc,             \* position of the ingestion script's __main__ block
    country,        \* main.py:315
    region,         \* main.py:315
    source,         \* the extract file at source_filepath
    collector,      \* AddressCollector: node_refs and addresses
    nodes_dict,     \* main.py:339
    db_paths,       \* the db_path of each iteration of process_addresses_to_db
    region_bounds,  \* main.py:357
    country_bounds, \* main.py:370
    runs,           \* number of ingestion runs started
    tool            \* the lookup tool in progress: its argv, position, locals, outcome

\* The variables of the ingestion script and of the tree under results/.
ingestion_vars ==
    <<clock, locality_db, inventory, pc, country, region, source, collector,
      nodes_dict, db_paths, region_bounds, country_bounds, runs>>

vars == <<ingestion_vars, tool>>

(***************************************************************************)
(* Bounds of the model.                                                    *)
(***************************************************************************)
MaxRuns == 2
MaxClock == 1
MaxWays == 2

None == <<>>

\* No lookup tool has been started.
NoTool ==
    [name |-> "none", pc |-> "none", argv |-> <<>>, locals |-> <<>>, calls |-> <<>>,
     outcome |-> <<>>, exit_code |-> <<>>]

(***************************************************************************)
(* Exact arithmetic for REAL columns and Python floats.                    *)
(***************************************************************************)
RECURSIVE Gcd(_, _)
Gcd(a, b) == IF b = 0 THEN a ELSE Gcd(b, a % b)

Abs(n) == IF n < 0 THEN -n ELSE n

Rat(n, d) ==
    LET g == Gcd(Abs(n), d) IN <<n \div g, d \div g>>

Real(n) == <<n, 1>>

RatAdd(a, b) == Rat(a[1] * b[2] + b[1] * a[2], a[2] * b[2])
RatSub(a, b) == Rat(a[1] * b[2] - b[1] * a[2], a[2] * b[2])
RatMul(a, b) == Rat(a[1] * b[1], a[2] * b[2])
RatDiv(a, n) == Rat(a[1], a[2] * n)
RatLeq(a, b) == a[1] * b[2] <= b[1] * a[2]
RatLess(a, b) == a[1] * b[2] < b[1] * a[2]

RECURSIVE sum(_)
sum(values) ==
    IF values = <<>> THEN Real(0) ELSE RatAdd(values[1], sum(Tail(values)))

Range(s) == {s[i] : i \in DOMAIN s}

\* SQL MIN() / MAX() over a column: NULL values are skipped, no value gives NULL.
MIN(values) ==
    LET S == Range(values) \ {None}
    IN  IF S = {} THEN None ELSE CHOOSE m \in S : \A v \in S : RatLeq(m, v)

MAX(values) ==
    LET S == Range(values) \ {None}
    IN  IF S = {} THEN None ELSE CHOOSE m \in S : \A v \in S : RatLeq(v, m)

Column(rows, f) == [i \in DOMAIN rows |-> rows[i][f]]

\* dict[key] = value, also for a key not in the dict yet.
Put(f, k, v) == [x \in DOMAIN f \cup {k} |-> IF x = k THEN v ELSE f[x]]

(***************************************************************************)
(* str.lower() and the file name of a locality.                            *)
(***************************************************************************)
UpperCase ==
    <<"A", "B", "C", "D", "E", "F", "G", "H", "I", "J", "K", "L", "M", "N", "O",
      "P", "Q", "R", "S", "T", "U", "V", "W", "X", "Y", "Z",
      "A_OGONEK", "C_ACUTE", "E_OGONEK", "L_STROKE", "N_ACUTE", "O_ACUTE",
      "S_ACUTE", "Z_ACUTE", "Z_DOT">>

LowerCase ==
    <<"a", "b", "c", "d", "e", "f", "g", "h", "i", "j", "k", "l", "m", "n", "o",
      "p", "q", "r", "s", "t", "u", "v", "w", "x", "y", "z",
      "a_ogonek", "c_acute", "e_ogonek", "l_stroke", "n_acute", "o_acute",
      "s_acute", "z_acute", "z_dot">>

lower_char(c) ==
    IF \E i \in DOMAIN UpperCase : UpperCase[i] = c
    THEN LowerCase[CHOOSE i \in DOMAIN UpperCase : UpperCase[i] = c]
    ELSE c

lower(s) == [i \in DOMAIN s |-> lower_char(s[i])]

Digit(n) == <<"0", "1", "2", "3", "4", "5", "6", "7", "8", "9">>[n + 1]

\* strftime("%Y%m%d_%H%M%S") of the instant `now` seconds into the model's minute.
strftime(now) ==
    <<"2", "0", "2", "6", "0", "1", "0", "1", "_", "0", "0", "0", "0",
      Digit((now \div 10) % 10), Digit(now % 10)>>

noname(dtmodifier) == <<"n", "o", "n", "a", "m", "e", "_">> \o dtmodifier

\* The characters of "a(a-ogonek)bcdefghijklmnopqrstuvwxyz_" (main.py:168).
KeptChars ==
    {"a", "a_ogonek", "b", "c", "d", "e", "f", "g", "h", "i", "j", "k", "l", "m",
     "n", "o", "p", "q", "r", "s", "t", "u", "v", "w", "x", "y", "z", "_"}

\* One turn of the loop of main.py:151-170: what the character adds to the output.
convert_char(c) ==
    IF c = "a_ogonek" THEN <<"a">>
    ELSE IF c = " " THEN <<"_">>
    ELSE IF c = "c_acute" THEN <<"c">>
    ELSE IF c = "e_ogonek" THEN <<"e">>
    ELSE IF c = "l_stroke" THEN <<"l">>
    ELSE IF c = "o_acute" THEN <<"o">>
    ELSE IF c = "s_acute" THEN <<"s">>
    ELSE IF c \in {"z_acute", "z_dot"} THEN <<"z">>
    ELSE IF c \notin KeptChars THEN <<>>
    ELSE <<c>>

RECURSIVE convert_chars(_)
convert_chars(s) ==
    IF s = <<>> THEN <<>> ELSE convert_char(s[1]) \o convert_chars(Tail(s))

\* `now` is the value datetime.datetime.now() returns during the call.
convert_polish_locality_name_to_restricted_in_filesystem(raw_locality_name, now) ==
    LET dtmodifier == strftime(now)
        output_locality_name == convert_chars(lower(raw_locality_name))
    IN  IF raw_locality_name = <<>> THEN noname(dtmodifier)
        ELSE IF output_locality_name # <<>> THEN output_locality_name
        ELSE noname(dtmodifier)

(***************************************************************************)
(* The inputs: country and region of the URL, and the extract's content.   *)
(***************************************************************************)
Countries == {<<"p", "l">>, <<"d", "e">>}
Regions == {<<"m">>, <<"s">>}

Tags(city, street, housenumber) ==
    ("addr:city" :> city) @@ ("addr:street" :> street)
        @@ ("addr:housenumber" :> housenumber)

Way(tags, nodes) == [tags |-> tags, nodes |-> nodes]

\* Ways of an extract: three addresses of the locality "La", among them a way with
\* three nodes of which the extract locates two and a way whose only node the
\* extract does not locate; the localities "b" and "la"; a locality whose name
\* leaves no character for the file name; and a way without addr:city.
WayCatalog ==
    { Way(Tags(<<"L", "a">>, <<"s">>, <<"1">>), <<1>>),
      Way(Tags(<<"L", "a">>, <<"t">>, <<"1">>), <<1, 2, 3>>),
      Way(Tags(<<"L", "a">>, <<"u">>, <<"1">>), <<3>>),
      Way(Tags(<<"b">>, <<"s">>, <<"1">>), <<2>>),
      Way(Tags(<<"l", "a">>, <<"s">>, <<"1">>), <<2>>),
      Way(Tags(<<"7">>, <<"s">>, <<"1">>), <<2>>),
      Way(("addr:street" :> <<"s">>) @@ ("addr:housenumber" :> <<"1">>), <<1>>) }

Node(id, valid, lat, lon) == [id |-> id, valid |-> valid, lat |-> lat, lon |-> lon]

\* Nodes of an extract: node 3 has no valid location, node 4 is in no way.
NodeCatalog ==
    { << Node(1, TRUE, 0, 0), Node(2, TRUE, 2, 2), Node(3, FALSE, 0, 0),
         Node(4, TRUE, 1, 1) >> }

Extracts ==
    { [ways |-> w, nodes |-> n] :
        w \in UNION {[1..k -> WayCatalog] : k \in 0..MaxWays}, n \in NodeCatalog }

NoExtract == [ways |-> <<>>, nodes |-> <<>>]

(***************************************************************************)
(* The two passes over the extract (main.py:104-143).                      *)
(***************************************************************************)
\* AddressCollector() is built without a specific_locality (main.py:333).
specific_locality == None

NewAddressCollector == [node_refs |-> {}, addresses |-> <<>>]

\* addresses[locality].append(record), the dict keeping the order of insertion.
AppendAddress(addresses, locality, record) ==
    IF \E i \in DOMAIN addresses : addresses[i].locality = locality
    THEN [i \in DOMAIN addresses |->
            IF addresses[i].locality = locality
            THEN [addresses[i] EXCEPT !.records = Append(@, record)]
            ELSE addresses[i]]
    ELSE Append(addresses, [locality |-> locality, records |-> <<record>>])

\* AddressCollector.way
way(self, w) ==
    IF {"addr:street", "addr:housenumber", "addr:city"} \subseteq DOMAIN w.tags
    THEN LET locality == w.tags["addr:city"]
             street == w.tags["addr:street"]
             housenumber == w.tags["addr:housenumber"]
             node_refs == w.nodes
         IN  IF specific_locality # None /\ locality # specific_locality
             THEN self
             ELSE [node_refs |-> self.node_refs \cup Range(node_refs),
                   addresses |-> AppendAddress(self.addresses, locality,
                                     <<street, housenumber, node_refs>>)]
    ELSE self

\* node without the test of membership in node_refs.
node_Unfiltered(dict, node_refs, n) ==
    IF n.valid THEN Put(dict, n.id, <<Real(n.lat), Real(n.lon)>>) ELSE dict

\* NodeCollector.node
node(dict, node_refs, n) ==
    IF n.id \in node_refs /\ n.valid
    THEN Put(dict, n.id, <<Real(n.lat), Real(n.lon)>>)
    ELSE dict

RECURSIVE apply_file_ways(_, _)
apply_file_ways(self, ways) ==
    IF ways = <<>> THEN self ELSE apply_file_ways(way(self, ways[1]), Tail(ways))

RECURSIVE apply_file_nodes(_, _, _)
apply_file_nodes(dict, node_refs, nodes) ==
    IF nodes = <<>> THEN dict
    ELSE apply_file_nodes(node(dict, node_refs, nodes[1]), node_refs, Tail(nodes))

(***************************************************************************)
(* Files.  A directory is the tuple of its names under results/; a         *)
(* locality file is its region's directory and the file name.              *)
(***************************************************************************)
RESULTS_FOLDERPATH == <<>>
CountryDir(c) == <<c>>
OutputDir(c, r) == <<c, r>>
LocalityDbPath(output_dir, locality_filename) == Append(output_dir, locality_filename)

\* sqlite3.connect: the file is created when it does not exist, without any table.
connect(db, db_path) ==
    IF db_path \in DOMAIN db THEN db
    ELSE Put(db, db_path, [has_table |-> FALSE, rows |-> <<>>])

\* CREATE TABLE IF NOT EXISTS addresses
create_table(db, db_path) == [db EXCEPT ![db_path].has_table = TRUE]

\* The nondecreasing readings of the clock that k calls in a row can see.
Readings(k) ==
    {ts \in [1..k -> clock..MaxClock] : \A i \in 1..k : \A j \in i..k : ts[i] <= ts[j]}

LastReading(ts) == IF ts = <<>> THEN clock ELSE ts[Len(ts)]

(***************************************************************************)
(* process_addresses_to_db (main.py:227-260).                              *)
(***************************************************************************)
\* main.py:247
ValidNodes(node_refs, dict) ==
    LET Known(ref) == ref \in DOMAIN dict
        refs == SelectSeq(node_refs, Known)
    IN  [i \in DOMAIN refs |-> dict[refs[i]]]

\* main.py:249-250
Mean(valid_nodes, axis) ==
    RatDiv(sum([i \in DOMAIN valid_nodes |-> valid_nodes[i][axis]]), Len(valid_nodes))

\* AddressRows dividing by the number of the way's references, located or not.
AddressRows_MeanOverAllRefs(record, dict) ==
    LET valid_nodes == ValidNodes(record[3], dict)
    IN  IF valid_nodes # <<>>
        THEN << [street |-> record[1], housenumber |-> record[2],
                 latitude |-> RatDiv(sum(Column(valid_nodes, 1)), Len(record[3])),
                 longitude |-> RatDiv(sum(Column(valid_nodes, 2)), Len(record[3]))] >>
        ELSE <<>>

\* main.py:246-254: the rows one address inserts
AddressRows(record, dict) ==
    LET valid_nodes == ValidNodes(record[3], dict)
    IN  IF valid_nodes # <<>>
        THEN << [street |-> record[1], housenumber |-> record[2],
                 latitude |-> Mean(valid_nodes, 1),
                 longitude |-> Mean(valid_nodes, 2)] >>
        ELSE <<>>

RECURSIVE LocalityRows(_, _)
LocalityRows(locality_addresses, dict) ==
    IF locality_addresses = <<>> THEN <<>>
    ELSE AddressRows(locality_addresses[1], dict)
            \o LocalityRows(Tail(locality_addresses), dict)

\* main.py:233-234, the clock reading `now` being the call's
DbPathOf(output_dir, locality, now) ==
    LocalityDbPath(output_dir,
        convert_polish_locality_name_to_restricted_in_filesystem(locality, now))

\* main.py:236-256: one turn of the loop over the localities
WriteLocality(db, db_path, locality_addresses, dict) ==
    LET opened == create_table(connect(db, db_path), db_path)
    IN  [opened EXCEPT ![db_path].rows = @ \o LocalityRows(locality_addresses, dict)]

RECURSIVE process_addresses_to_db(_, _, _, _, _)
process_addresses_to_db(db, addresses, dict, output_dir, times) ==
    IF addresses = <<>> THEN db
    ELSE process_addresses_to_db(
            WriteLocality(db, DbPathOf(output_dir, addresses[1].locality, times[1]),
                          addresses[1].records, dict),
            Tail(addresses), dict, output_dir, Tail(times))

(***************************************************************************)
(* create_inventory_db (main.py:173-225), called with level='region'.      *)
(***************************************************************************)
InventoryRow(name, path, bounds) ==
    [name |-> name, path |-> path, min_lat |-> bounds[1], max_lat |-> bounds[2],
     min_lon |-> bounds[3], max_lon |-> bounds[4]]

\* main.py:206-208: SELECT MIN(latitude), MAX(latitude), MIN(longitude), MAX(longitude)
SelectBounds(rows) ==
    << MIN(Column(rows, "latitude")), MAX(Column(rows, "latitude")),
       MIN(Column(rows, "longitude")), MAX(Column(rows, "longitude")) >>

\* InsertIfBounded without the test of main.py:217.
InsertIfBounded_Unguarded(rows, name, rel_db_path, bounds) ==
    Append(rows, InventoryRow(name, rel_db_path, bounds))

\* main.py:217-221
InsertIfBounded(rows, name, rel_db_path, bounds) ==
    IF bounds[1] # None THEN Append(rows, InventoryRow(name, rel_db_path, bounds))
    ELSE rows

\* main.py:199-221: one turn of the loop, on st = [rows, db]; a locality file
\* without the addresses table makes the SELECT raise, and the loop continues.
InventoryLocality(st, name, db_path) ==
    LET opened == connect(st.db, db_path)
    IN  IF ~opened[db_path].has_table
        THEN [rows |-> st.rows, db |-> opened]
        ELSE [rows |-> InsertIfBounded(st.rows, name, db_path,
                                       SelectBounds(opened[db_path].rows)),
              db |-> opened]

RECURSIVE create_inventory_db(_, _, _, _)
create_inventory_db(st, output_dir, addresses, times) ==
    IF addresses = <<>> THEN st
    ELSE create_inventory_db(
            InventoryLocality(st, addresses[1].locality,
                              DbPathOf(output_dir, addresses[1].locality, times[1])),
            output_dir, Tail(addresses), Tail(times))

\* CREATE TABLE IF NOT EXISTS of an inventory: its rows so far, none for a new file.
InventoryRows(inv, dir) == IF dir \in DOMAIN inv THEN inv[dir] ELSE <<>>

\* main.py:356 and 369: SELECT MIN(min_lat), MAX(max_lat), MIN(min_lon), MAX(max_lon)
SelectEnvelope(rows) ==
    << MIN(Column(rows, "min_lat")), MAX(Column(rows, "max_lat")),
       MIN(Column(rows, "min_lon")), MAX(Column(rows, "max_lon")) >>

(***************************************************************************)
(* update_country_inventory and update_global_inventory (main.py:262-308). *)
(* The tables declare no key, so INSERT OR REPLACE meets no conflict and   *)
(* adds a row.                                                             *)
(***************************************************************************)
\* InsertOrReplace writing the table anew.
InsertOrReplace_DropsOthers(rows, name, path, bounds) ==
    <<InventoryRow(name, path, bounds)>>

\* main.py:278-281 and 302-305
InsertOrReplace(rows, name, path, bounds) ==
    Append(rows, InventoryRow(name, path, bounds))

update_country_inventory(inv, country_dir, region_name, bounds) ==
    Put(inv, country_dir,
        InsertOrReplace(InventoryRows(inv, country_dir), region_name,
                        Append(country_dir, region_name), bounds))

update_global_inventory(inv, country_name, country_dir, bounds) ==
    Put(inv, RESULTS_FOLDERPATH,
        InsertOrReplace(InventoryRows(inv, RESULTS_FOLDERPATH), country_name,
                        country_dir, bounds))

(***************************************************************************)
(* The ingestion script (main.py:310-378), one run after another.          *)
(***************************************************************************)
Init ==
    /\ clock = 0
    /\ locality_db = <<>>
    /\ inventory = <<>>
    /\ pc = "idle"
    /\ country = <<>>
    /\ region = <<>>
    /\ source = NoExtract
    /\ collector = NewAddressCollector
    /\ nodes_dict = <<>>
    /\ db_paths = <<>>
    /\ region_bounds = None
    /\ country_bounds = None
    /\ runs = 0
    /\ tool = NoTool

\* main.py:311-329: the URL names country and region, the extract is on disk.
SelectExtract ==
    /\ pc = "idle"
    /\ runs < MaxRuns
    /\ \E c \in Countries, r \in Regions, e \in Extracts :
          /\ country' = c
          /\ region' = r
          /\ source' = e
    /\ runs' = runs + 1
    /\ collector' = NewAddressCollector
    /\ nodes_dict' = <<>>
    /\ db_paths' = <<>>
    /\ region_bounds' = None
    /\ country_bounds' = None
    /\ pc' = "first_pass"
    /\ UNCHANGED <<clock, locality_db, inventory>>
    /\ UNCHANGED tool

\* main.py:331-335
FirstPass ==
    /\ pc = "first_pass"
    /\ collector' = apply_file_ways(NewAddressCollector, source.ways)
    /\ pc' = "second_pass"
    /\ UNCHANGED <<clock, locality_db, inventory, country, region, source,
                   nodes_dict, db_paths, region_bounds, country_bounds, runs>>
    /\ UNCHANGED tool

\* main.py:337-342
SecondPass ==
    /\ pc = "second_pass"
    /\ nodes_dict' = apply_file_nodes(<<>>, collector.node_refs, source.nodes)
    /\ source' = NoExtract
    /\ pc' = "write"
    /\ UNCHANGED <<clock, locality_db, inventory, country, region, collector,
                   db_paths, region_bounds, country_bounds, runs>>
    /\ UNCHANGED tool

\* main.py:344-346
ProcessAddressesToDb ==
    /\ pc = "write"
    /\ \E times \in Readings(Len(collector.addresses)) :
          /\ locality_db' = process_addresses_to_db(locality_db, collector.addresses,
                                nodes_dict, OutputDir(country, region), times)
          /\ db_paths' = [i \in DOMAIN collector.addresses |->
                            DbPathOf(OutputDir(country, region),
                                     collector.addresses[i].locality, times[i])]
          /\ clock' = LastReading(times)
    /\ pc' = "inventory"
    /\ UNCHANGED <<inventory, country, region, source, collector, nodes_dict,
                   region_bounds, country_bounds, runs>>
    /\ UNCHANGED tool

\* main.py:348-358: the region inventory, then the region's bounding box
CreateInventoryDb ==
    /\ pc = "inventory"
    /\ \E times \in Readings(Len(collector.addresses)) :
          LET output_dir == OutputDir(country, region)
              st == create_inventory_db(
                        [rows |-> InventoryRows(inventory, output_dir),
                         db |-> locality_db],
                        output_dir, collector.addresses, times)
          IN  /\ inventory' = Put(inventory, output_dir, st.rows)
              /\ locality_db' = st.db
              /\ region_bounds' = SelectEnvelope(st.rows)
              /\ clock' = LastReading(times)
    /\ pc' = "country"
    /\ UNCHANGED <<country, region, source, collector, nodes_dict, db_paths,
                   country_bounds, runs>>
    /\ UNCHANGED tool

\* main.py:360-371: the region's row, then the country's bounding box
UpdateCountryInventory ==
    /\ pc = "country"
    /\ IF region_bounds[1] # None
       THEN LET updated == update_country_inventory(inventory, CountryDir(country),
                                                    region, region_bounds)
            IN  /\ inventory' = updated
                /\ country_bounds' = SelectEnvelope(updated[CountryDir(country)])
                /\ pc' = "global"
       ELSE /\ pc' = "idle"
            /\ UNCHANGED <<inventory, country_bounds>>
    /\ UNCHANGED <<clock, locality_db, country, region, source, collector,
                   nodes_dict, db_paths, region_bounds, runs>>
    /\ UNCHANGED tool

\* main.py:373-378
UpdateGlobalInventory ==
    /\ pc = "global"
    /\ inventory' = IF country_bounds[1] # None
                    THEN update_global_inventory(inventory, country,
                                                 CountryDir(country), country_bounds)
                    ELSE inventory
    /\ pc' = "idle"
    /\ UNCHANGED <<clock, locality_db, country, region, source, collector,
                   nodes_dict, db_paths, region_bounds, country_bounds, runs>>
    /\ UNCHANGED tool

Next ==
    \/ SelectExtract
    \/ FirstPass
    \/ SecondPass
    \/ ProcessAddressesToDb
    \/ CreateInventoryDb
    \/ UpdateCountryInventory
    \/ UpdateGlobalInventory

Spec == Init /\ [][Next]_vars

(***************************************************************************)
(* address_finder.py: from a point to the nearest address.                 *)
(***************************************************************************)
\* cursor.fetchone() of a SELECT without ORDER BY on a table without index: the
\* first row, in the order of insertion, that passes the WHERE clause; <<>> if none.
\* `where` tells of each row whether it passes.
FetchOne(rows, where) ==
    IF \E i \in DOMAIN rows : where[i]
    THEN << rows[CHOOSE i \in DOMAIN rows :
                    where[i] /\ \A j \in 1..(i - 1) : ~where[j]] >>
    ELSE <<>>

\* ? BETWEEN min_lat AND max_lat AND ? BETWEEN min_lon AND max_lon
Between(row, lat, lon) ==
    /\ None \notin {row.min_lat, row.max_lat, row.min_lon, row.max_lon}
    /\ RatLeq(row.min_lat, lat) /\ RatLeq(lat, row.max_lat)
    /\ RatLeq(row.min_lon, lon) /\ RatLeq(lon, row.max_lon)

\* FindInInventory falling back to the first row when no box holds the point.
FindInInventory_Fallback(inv, dir, lat, lon) ==
    IF dir \notin DOMAIN inv \/ inv[dir] = <<>> THEN None
    ELSE LET where == [i \in DOMAIN inv[dir] |-> Between(inv[dir][i], lat, lon)]
             result == FetchOne(inv[dir], where)
         IN  IF result # <<>> THEN <<result[1].name, result[1].path>>
             ELSE <<inv[dir][1].name, inv[dir][1].path>>

\* find_country, find_region and find_locality run the same query on the
\* inventory of a directory: <<name, path>> of the row found, or None.
FindInInventory(inv, dir, lat, lon) ==
    IF dir \notin DOMAIN inv THEN None
    ELSE LET where == [i \in DOMAIN inv[dir] |-> Between(inv[dir][i], lat, lon)]
             result == FetchOne(inv[dir], where)
         IN  IF result # <<>> THEN <<result[1].name, result[1].path>> ELSE None

find_country(inv, lat, lon) == FindInInventory(inv, RESULTS_FOLDERPATH, lat, lon)

find_region(inv, country_dir, lat, lon) == FindInInventory(inv, country_dir, lat, lon)

find_locality(inv, region_dir, lat, lon) == FindInInventory(inv, region_dir, lat, lon)

\* (latitude - ?) * (latitude - ?) + (longitude - ?) * (longitude - ?)
Distance(row, lat, lon) ==
    RatAdd(RatMul(RatSub(row.latitude, lat), RatSub(row.latitude, lat)),
           RatMul(RatSub(row.longitude, lon), RatSub(row.longitude, lon)))

\* find_nearest_address on a file without the addresses table: the SELECT raises
\* sqlite3.OperationalError, which nothing catches.
NearestRaises(db, locality_db_path) ==
    locality_db_path \in DOMAIN db /\ ~db[locality_db_path].has_table

\* find_nearest_address: ORDER BY distance LIMIT 1, the earliest row among the
\* nearest; <<row>> or None.
find_nearest_address(db, locality_db_path, lat, lon) ==
    IF locality_db_path \notin DOMAIN db THEN None
    ELSE LET rows == db[locality_db_path].rows
             distance == [i \in DOMAIN rows |-> Distance(rows[i], lat, lon)]
             nearest == [i \in DOMAIN rows |->
                            \A k \in DOMAIN rows : RatLeq(distance[i], distance[k])]
         IN  FetchOne(rows, nearest)

NotFound(msg) == [address |-> None, msg |-> msg]

get_address(inv, db, lat, lon) ==
    LET country_result == find_country(inv, lat, lon) IN
    IF country_result = None
    THEN NotFound("ER - Could not determine country for given coordinates.")
    ELSE
    LET region_result == find_region(inv, country_result[2], lat, lon) IN
    IF region_result = None
    THEN NotFound("ER - Could not determine region for given coordinates.")
    ELSE
    LET locality_result == find_locality(inv, region_result[2], lat, lon) IN
    IF locality_result = None
    THEN NotFound("ER - Could not determine locality for given coordinates (city, town, village, etc).")
    ELSE
    IF NearestRaises(db, locality_result[2])
    THEN NotFound("sqlite3.OperationalError")
    ELSE
    LET address_result == find_nearest_address(db, locality_result[2], lat, lon) IN
    IF address_result = None
    THEN NotFound("ER - Could not determine address for given coordinates.")
    ELSE [address |-> << [country |-> country_result[1],
                          region |-> region_result[1],
                          locality |-> locality_result[1],
                          street |-> address_result[1].street,
                          housenumber |-> address_result[1].housenumber,
                          latitude |-> address_result[1].latitude,
                          longitude |-> address_result[1].longitude] >>,
          msg |-> "OK - Address found."]

(***************************************************************************)
(* find_coordinates.py: from "Country, Locality, Street, Housenumber" to   *)
(* the stored point.                                                       *)
(***************************************************************************)
\* str.split(',')
RECURSIVE split(_, _)
split(s, part) ==
    IF s = <<>> THEN <<part>>
    ELSE IF s[1] = "," THEN <<part>> \o split(Tail(s), <<>>)
    ELSE split(Tail(s), Append(part, s[1]))

\* str.strip()
RECURSIVE lstrip(_)
lstrip(s) == IF s # <<>> /\ s[1] = " " THEN lstrip(Tail(s)) ELSE s

RECURSIVE rstrip(_)
rstrip(s) ==
    IF s # <<>> /\ s[Len(s)] = " " THEN rstrip(SubSeq(s, 1, Len(s) - 1)) ELSE s

strip(s) == rstrip(lstrip(s))

\* parse_address keeping the first four fields of a longer text.
parse_address_Lenient(address_str) ==
    LET raw == split(address_str, <<>>)
        parts == [i \in DOMAIN raw |-> strip(raw[i])]
    IN  IF Len(parts) < 4 THEN <<"SystemExit">>
        ELSE <<lower(parts[1]), parts[2], parts[3], parts[4]>>

\* parse_address: the four fields, or "SystemExit" for sys.exit(1)
parse_address(address_str) ==
    LET raw == split(address_str, <<>>)
        parts == [i \in DOMAIN raw |-> strip(raw[i])]
    IN  IF Len(parts) # 4 THEN <<"SystemExit">>
        ELSE <<lower(parts[1]), parts[2], parts[3], parts[4]>>

\* SQLite's lower(): the letters A-Z only
sql_lower(s) ==
    [i \in DOMAIN s |->
        IF \E k \in 1..26 : UpperCase[k] = s[i] THEN lower_char(s[i]) ELSE s[i]]

\* find_country_dir
find_country_dir(inv, country_name) ==
    IF RESULTS_FOLDERPATH \notin DOMAIN inv THEN None
    ELSE LET rows == inv[RESULTS_FOLDERPATH]
             where == [i \in DOMAIN rows |-> sql_lower(rows[i].name) = country_name]
             result == FetchOne(rows, where)
         IN  IF result # <<>> THEN <<result[1].path>> ELSE None

\* os.path.exists of a directory: one that holds a file
DirExists(inv, db, dir) ==
    \E p \in DOMAIN inv \cup DOMAIN db :
        Len(p) >= Len(dir) /\ SubSeq(p, 1, Len(dir)) = dir

\* find_locality_db, lines 76-95: the loop over the regions of the country
RECURSIVE ScanRegions(_, _, _)
ScanRegions(inv, regions, locality) ==
    IF regions = <<>> THEN None
    ELSE IF regions[1] \notin DOMAIN inv THEN ScanRegions(inv, Tail(regions), locality)
    ELSE LET rows == inv[regions[1]]
             where == [i \in DOMAIN rows |-> rows[i].name = locality]
             result == FetchOne(rows, where)
         IN  IF result # <<>> THEN <<result[1].path>>
             ELSE ScanRegions(inv, Tail(regions), locality)

find_locality_db(inv, db, country_dir, locality) ==
    IF ~DirExists(inv, db, country_dir) THEN None
    ELSE IF country_dir \notin DOMAIN inv THEN None
    ELSE ScanRegions(inv, Column(inv[country_dir], "path"), locality)

\* find_coordinates: <<lat, lon>> of the first row of that street and house number
find_coordinates(db, locality_db_path, street, housenumber) ==
    IF locality_db_path \notin DOMAIN db THEN None
    ELSE LET rows == db[locality_db_path].rows
             where == [i \in DOMAIN rows |->
                          rows[i].street = street /\ rows[i].housenumber = housenumber]
             result == FetchOne(rows, where)
         IN  IF result # <<>> THEN <<result[1].latitude, result[1].longitude>>
             ELSE None

NoResult(msg) == [result |-> None, msg |-> msg]

get_coordinates(inv, db, address_str) ==
    LET parsed == parse_address(address_str) IN
    IF parsed = <<"SystemExit">> THEN NoResult("SystemExit")
    ELSE
    LET country_dir == find_country_dir(inv, parsed[1]) IN
    IF country_dir = None THEN NoResult("ER - Country not found in global inventory.")
    ELSE
    LET locality_db_path == find_locality_db(inv, db, country_dir[1], parsed[2]) IN
    IF locality_db_path = None
    THEN NoResult("ER - Locality not found in country inventory.")
    ELSE
    LET coordinates == find_coordinates(db, locality_db_path[1], parsed[3], parsed[4]) IN
    IF coordinates = None
    THEN NoResult("ER - Coordinates not found for given address.")
    ELSE [result |-> << [country |-> parsed[1], locality |-> parsed[2],
                         street |-> parsed[3], housenumber |-> parsed[4],
                         latitude |-> coordinates[1],
                         longitude |-> coordinates[2]] >>,
          msg |-> "OK - Coordinates found."]

\* The text a user types for an address: the fields joined by ", ".
AddressStr(country_name, locality, street, housenumber) ==
    country_name \o <<",", " ">> \o locality \o <<",", " ">> \o street
        \o <<",", " ">> \o housenumber

(***************************************************************************)
(* The lookup tools as processes: address_finder.py's and                  *)
(* find_coordinates.py's __main__ blocks, one step per function they call. *)
(* tool.calls lists the lookups made, tool.exit_code is <<>> until the     *)
(* process ends.                                                           *)
(***************************************************************************)
\* sys.exit(code), an uncaught exception (code 1) or the end of the script (code 0)
sys_exit(t, code) == [t EXCEPT !.pc = "exit", !.exit_code = <<code>>]

\* `return outcome` of get_address or get_coordinates, back in __main__
returns(t, outcome) == [t EXCEPT !.pc = "report", !.outcome = <<outcome>>]

\* One more lookup: the function called and the file or directory it is given.
called(t, fn, at) == [t EXCEPT !.calls = Append(@, [fn |-> fn, at |-> at])]

IsDigit(c) == \E n \in 0..9 : Digit(n) = c

DigitValue(c) == CHOOSE n \in 0..9 : Digit(n) = c

RECURSIVE DigitsValue(_)
DigitsValue(s) ==
    IF s = <<>> THEN 0
    ELSE 10 * DigitsValue(SubSeq(s, 1, Len(s) - 1)) + DigitValue(s[Len(s)])

RECURSIVE Power10(_)
Power10(n) == IF n = 0 THEN 1 ELSE 10 * Power10(n - 1)

\* float(text) of a text without sign, exponent or blanks: digits with at most
\* one "." among them; <<value>>, or None where Python raises ValueError.
float(text) ==
    LET IsPoint(c) == c = "."
        NotPoint(c) == c # "."
        digits == SelectSeq(text, NotPoint)
        points == SelectSeq(text, IsPoint)
        decimals == IF points = <<>> THEN 0
                    ELSE Len(text) - (CHOOSE i \in DOMAIN text : text[i] = ".")
    IN  IF \/ digits = <<>>
           \/ Len(points) > 1
           \/ \E i \in DOMAIN digits : ~IsDigit(digits[i])
        THEN None
        ELSE << Rat(DigitsValue(digits), Power10(decimals)) >>

\* What the user types after "python address_finder.py".
FinderArgv ==
    { <<lat, lon>> : lat, lon \in {<<"0">>, <<"1">>, <<"3">>} }
        \cup { <<>>, <<<<"0">>, <<"x">>>>, <<<<"0", ".", "5">>, <<"2">>>>,
               <<<<"0">>, <<"0">>, <<"0">>>> }

\* address_finder.py:163-175
AddressFinderMain ==
    /\ tool.name = "none"
    /\ \E argv \in FinderArgv :
          LET started == [NoTool EXCEPT !.name = "address_finder", !.argv = argv]
          IN  tool' =
                IF Len(argv) + 1 # 3 THEN sys_exit(started, 1)
                ELSE IF float(argv[1]) = None \/ float(argv[2]) = None
                THEN sys_exit(started, 1)
                ELSE [started EXCEPT !.pc = "find_country",
                                     !.locals = ("lat" :> float(argv[1])[1])
                                                    @@ ("lon" :> float(argv[2])[1])]
    /\ UNCHANGED ingestion_vars

\* get_address, address_finder.py:129-132
FindCountry ==
    /\ tool.name = "address_finder" /\ tool.pc = "find_country"
    /\ LET country_result == find_country(inventory, tool.locals["lat"], tool.locals["lon"])
           t == [called(tool, "find_country", RESULTS_FOLDERPATH)
                    EXCEPT !.locals = Put(@, "country_result", country_result)]
       IN  tool' = IF country_result = None
                   THEN returns(t, NotFound("ER - Could not determine country for given coordinates."))
                   ELSE [t EXCEPT !.pc = "find_region"]
    /\ UNCHANGED ingestion_vars

\* get_address, address_finder.py:135-138
FindRegion ==
    /\ tool.name = "address_finder" /\ tool.pc = "find_region"
    /\ LET country_dir == tool.locals["country_result"][2]
           region_result == find_region(inventory, country_dir,
                                        tool.locals["lat"], tool.locals["lon"])
           t == [called(tool, "find_region", country_dir)
                    EXCEPT !.locals = Put(@, "region_result", region_result)]
       IN  tool' = IF region_result = None
                   THEN returns(t, NotFound("ER - Could not determine region for given coordinates."))
                   ELSE [t EXCEPT !.pc = "find_locality"]
    /\ UNCHANGED ingestion_vars

\* get_address, address_finder.py:141-144
FindLocality ==
    /\ tool.name = "address_finder" /\ tool.pc = "find_locality"
    /\ LET region_dir == tool.locals["region_result"][2]
           locality_result == find_locality(inventory, region_dir,
                                            tool.locals["lat"], tool.locals["lon"])
           t == [called(tool, "find_locality", region_dir)
                    EXCEPT !.locals = Put(@, "locality_result", locality_result)]
       IN  tool' = IF locality_result = None
                   THEN returns(t, NotFound("ER - Could not determine locality for given coordinates (city, town, village, etc)."))
                   ELSE [t EXCEPT !.pc = "find_nearest_address"]
    /\ UNCHANGED ingestion_vars

\* get_address, address_finder.py:147-160
FindNearestAddress ==
    /\ tool.name = "address_finder" /\ tool.pc = "find_nearest_address"
    /\ LET locality_db_path == tool.locals["locality_result"][2]
           address_result == find_nearest_address(locality_db, locality_db_path,
                                 tool.locals["lat"], tool.locals["lon"])
           t == called(tool, "find_nearest_address", locality_db_path)
       IN  tool' =
             IF NearestRaises(locality_db, locality_db_path) THEN sys_exit(t, 1)
             ELSE IF address_result = None
             THEN returns(t, NotFound("ER - Could not determine address for given coordinates."))
             ELSE returns(t,
                    [address |-> << [country |-> tool.locals["country_result"][1],
                                     region |-> tool.locals["region_result"][1],
                                     locality |-> tool.locals["locality_result"][1],
                                     street |-> address_result[1].street,
                                     housenumber |-> address_result[1].housenumber,
                                     latitude |-> address_result[1].latitude,
                                     longitude |-> address_result[1].longitude] >>,
                     msg |-> "OK - Address found."])
    /\ UNCHANGED ingestion_vars

\* address_finder.py:177-186: the outcome is logged and the script ends.
AddressFinderReport ==
    /\ tool.name = "address_finder" /\ tool.pc = "report"
    /\ tool' = sys_exit(tool, 0)
    /\ UNCHANGED ingestion_vars

\* What the user types after "python find_coordinates.py": one address with the
\* country in capitals, addresses of a country, a locality or a street that may
\* not be stored, texts of one, two and five fields, and no argument at all.
CoordinatesArgv ==
    { << AddressStr(<<"D", "E">>, <<"L", "a">>, <<"s">>, <<"1">>) >>,
      << AddressStr(<<"p", "l">>, <<"b">>, <<"s">>, <<"1">>) >>,
      << AddressStr(<<"d", "e">>, <<"L", "a">>, <<"t">>, <<"1">>) >>,
      << AddressStr(<<"d", "e">>, <<"x">>, <<"s">>, <<"1">>) >>,
      << AddressStr(<<"f", "r">>, <<"L", "a">>, <<"s">>, <<"1">>) >>,
      << <<"d", "e">> >>,
      << <<"d", "e", ",", " ", "L", "a">> >>,
      << AddressStr(<<"d", "e">>, <<"L", "a">>, <<"s">>, <<"1">>) \o <<",", "2">> >>,
      <<>> }

\* find_coordinates.py:154-160
FindCoordinatesMain ==
    /\ tool.name = "none"
    /\ \E argv \in CoordinatesArgv :
          LET started == [NoTool EXCEPT !.name = "find_coordinates", !.argv = argv]
          IN  tool' =
                IF Len(argv) + 1 # 2 THEN sys_exit(started, 1)
                ELSE [started EXCEPT !.pc = "parse_address",
                                     !.locals = "address_str" :> argv[1]]
    /\ UNCHANGED ingestion_vars

\* get_coordinates, find_coordinates.py:126
ParseAddress ==
    /\ tool.name = "find_coordinates" /\ tool.pc = "parse_address"
    /\ LET parsed == parse_address(tool.locals["address_str"])
       IN  tool' =
             IF parsed = <<"SystemExit">> THEN sys_exit(tool, 1)
             ELSE [tool EXCEPT !.pc = "find_country_dir",
                               !.locals = ("country" :> parsed[1]) @@ ("locality" :> parsed[2])
                                   @@ ("street" :> parsed[3]) @@ ("housenumber" :> parsed[4])
                                   @@ @]
    /\ UNCHANGED ingestion_vars

\* get_coordinates, find_coordinates.py:129-131
FindCountryDir ==
    /\ tool.name = "find_coordinates" /\ tool.pc = "find_country_dir"
    /\ LET country_dir == find_country_dir(inventory, tool.locals["country"])
           t == [called(tool, "find_country_dir", RESULTS_FOLDERPATH)
                    EXCEPT !.locals = Put(@, "country_dir", country_dir)]
       IN  tool' = IF country_dir = None
                   THEN returns(t, NoResult("ER - Country not found in global inventory."))
                   ELSE [t EXCEPT !.pc = "find_locality_db"]
    /\ UNCHANGED ingestion_vars

\* get_coordinates, find_coordinates.py:134-136
FindLocalityDb ==
    /\ tool.name = "find_coordinates" /\ tool.pc = "find_locality_db"
    /\ LET country_dir == tool.locals["country_dir"][1]
           locality_db_path == find_locality_db(inventory, locality_db, country_dir,
                                                tool.locals["locality"])
           t == [called(tool, "find_locality_db", country_dir)
                    EXCEPT !.locals = Put(@, "locality_db_path", locality_db_path)]
       IN  tool' = IF locality_db_path = None
                   THEN returns(t, NoResult("ER - Locality not found in country inventory."))
                   ELSE [t EXCEPT !.pc = "find_coordinates"]
    /\ UNCHANGED ingestion_vars

\* get_coordinates, find_coordinates.py:139-151; the SELECT raises on a file
\* without the addresses table, as in find_nearest_address.
FindCoordinates ==
    /\ tool.name = "find_coordinates" /\ tool.pc = "find_coordinates"
    /\ LET locality_db_path == tool.locals["locality_db_path"][1]
           coordinates == find_coordinates(locality_db, locality_db_path,
                              tool.locals["street"], tool.locals["housenumber"])
           t == called(tool, "find_coordinates", locality_db_path)
       IN  tool' =
             IF NearestRaises(locality_db, locality_db_path) THEN sys_exit(t, 1)
             ELSE IF coordinates = None
             THEN returns(t, NoResult("ER - Coordinates not found for given address."))
             ELSE returns(t,
                    [result |-> << [country |-> tool.locals["country"],
                                    locality |-> tool.locals["locality"],
                                    street |-> tool.locals["street"],
                                    housenumber |-> tool.locals["housenumber"],
                                    latitude |-> coordinates[1],
                                    longitude |-> coordinates[2]] >>,
                     msg |-> "OK - Coordinates found."])
    /\ UNCHANGED ingestion_vars

\* find_coordinates.py:162-170: the outcome is logged and the script ends.
FindCoordinatesReport ==
    /\ tool.name = "find_coordinates" /\ tool.pc = "report"
    /\ tool' = sys_exit(tool, 0)
    /\ UNCHANGED ingestion_vars

(***************************************************************************)
(* The trees the lookup tools run on: what ingestion runs leave under      *)
(* results/ (main.py:310-378, the clock standing still), from which the    *)
(* user may have removed files.                                            *)
(***************************************************************************)
MaxToolRuns == 2
MaxRemoved == 1

\* One whole run of the ingestion script on tree = [inv, db].
ingest(tree, c, r, e) ==
    LET collected == apply_file_ways(NewAddressCollector, e.ways)
        dict == apply_file_nodes(<<>>, collected.node_refs, e.nodes)
        output_dir == OutputDir(c, r)
        times == [i \in DOMAIN collected.addresses |-> 0]
        written == process_addresses_to_db(tree.db, collected.addresses, dict,
                                           output_dir, times)
        st == create_inventory_db([rows |-> InventoryRows(tree.inv, output_dir),
                                   db |-> written],
                                  output_dir, collected.addresses, times)
        region_inv == Put(tree.inv, output_dir, st.rows)
        bounds == SelectEnvelope(st.rows)
        country_inv == update_country_inventory(region_inv, CountryDir(c), r, bounds)
        c_bounds == SelectEnvelope(country_inv[CountryDir(c)])
    IN  IF bounds[1] = None THEN [inv |-> region_inv, db |-> st.db]
        ELSE IF c_bounds[1] = None THEN [inv |-> country_inv, db |-> st.db]
        ELSE [inv |-> update_global_inventory(country_inv, c, CountryDir(c), c_bounds),
              db |-> st.db]

\* The extracts of the runs before a lookup: the localities "La" and "b".
ToolExtracts ==
    { e \in Extracts :
        \A i \in DOMAIN e.ways :
            e.ways[i] \in { Way(Tags(<<"L", "a">>, <<"s">>, <<"1">>), <<1>>),
                            Way(Tags(<<"b">>, <<"s">>, <<"1">>), <<2>>) } }

ToolHistories ==
    UNION { [1..k -> Countries \X Regions \X ToolExtracts] : k \in 0..MaxToolRuns }

RECURSIVE Ingested(_)
Ingested(history) ==
    IF history = <<>> THEN [inv |-> <<>>, db |-> <<>>]
    ELSE LET last == history[Len(history)]
         IN  ingest(Ingested(SubSeq(history, 1, Len(history) - 1)),
                    last[1], last[2], last[3])

Without(f, removed) == [x \in (DOMAIN f) \ removed |-> f[x]]

ToolInit ==
    /\ \E history \in ToolHistories :
          LET tree == Ingested(history)
          IN  \E removed \in SUBSET (DOMAIN tree.inv \cup DOMAIN tree.db) :
                /\ Cardinality(removed) <= MaxRemoved
                /\ inventory = Without(tree.inv, removed)
                /\ locality_db = Without(tree.db, removed)
    /\ clock = 0
    /\ pc = "idle"
    /\ country = <<>>
    /\ region = <<>>
    /\ source = NoExtract
    /\ collector = NewAddressCollector
    /\ nodes_dict = <<>>
    /\ db_paths = <<>>
    /\ region_bounds = None
    /\ country_bounds = None
    /\ runs = 0
    /\ tool = NoTool

ToolNext ==
    \/ AddressFinderMain
    \/ FindCountry
    \/ FindRegion
    \/ FindLocality
    \/ FindNearestAddress
    \/ AddressFinderReport
    \/ FindCoordinatesMain
    \/ ParseAddress
    \/ FindCountryDir
    \/ FindLocalityDb
    \/ FindCoordinates
    \/ FindCoordinatesReport

ToolSpec == ToolInit /\ [][ToolNext]_vars

(***************************************************************************)
(* What the claims speak of.                                               *)
(***************************************************************************)
Finished == pc = "idle" /\ runs > 0

RowBox(row) == <<row.min_lat, row.max_lat, row.min_lon, row.max_lon>>

\* The min/max envelope of a set of <<lat, lon>> points; four NULLs of no point.
EnvelopeOf(points) ==
    IF points = {} THEN <<None, None, None, None>>
    ELSE << (CHOOSE p \in points : \A q \in points : RatLeq(p[1], q[1]))[1],
            (CHOOSE p \in points : \A q \in points : RatLeq(q[1], p[1]))[1],
            (CHOOSE p \in points : \A q \in points : RatLeq(p[2], q[2]))[2],
            (CHOOSE p \in points : \A q \in points : RatLeq(q[2], p[2]))[2] >>

TableRows(path) == IF path \in DOMAIN locality_db THEN locality_db[path].rows ELSE <<>>

\* The coordinates stored in a locality file, and those reachable through the
\* inventory of a region and of a country.
CoordsOfLocality(path) ==
    {<<row.latitude, row.longitude>> : row \in Range(TableRows(path))}

CoordsOfRegion(dir) ==
    UNION {CoordsOfLocality(row.path) : row \in Range(InventoryRows(inventory, dir))}

CoordsOfCountry(dir) ==
    UNION {CoordsOfRegion(row.path) : row \in Range(InventoryRows(inventory, dir))}

\* The coordinates beneath the resource a row of the inventory of `dir` points to.
CoordsBeneath(dir, row) ==
    IF Len(dir) = 2 THEN CoordsOfLocality(row.path)
    ELSE IF Len(dir) = 1 THEN CoordsOfRegion(row.path)
    ELSE CoordsOfCountry(row.path)

\* C1: once the runs so far have finished, every row of every inventory has the
\* exact min/max envelope of the coordinates stored beneath what it points to.
C1_BoxIsEnvelope ==
    pc = "idle" =>
        \A dir \in DOMAIN inventory : \A row \in Range(inventory[dir]) :
            RowBox(row) = EnvelopeOf(CoordsBeneath(dir, row))

\* C2: the inventory of a country has at most one row of a region name, and the
\* global inventory at most one row of a country name.
C2_OneRowPerName ==
    \A dir \in DOMAIN inventory :
        Len(dir) <= 1 =>
            \A i, j \in DOMAIN inventory[dir] :
                inventory[dir][i].name = inventory[dir][j].name => i = j

OtherRows(rows, name) ==
    LET Other(row) == row.name # name IN SelectSeq(rows, Other)

\* C3: a step of the run for region `region` of country `country` leaves the rows
\* of other regions in that country's inventory, the inventories of the other
\* countries, and the rows of other countries in the global inventory as they were.
C3_SiblingRowsUnchanged ==
    [][\A dir \in DOMAIN inventory :
            /\ dir \in DOMAIN inventory'
            /\ Len(dir) = 1 =>
                  IF dir = CountryDir(country)
                  THEN OtherRows(inventory'[dir], region)
                            = OtherRows(inventory[dir], region)
                  ELSE inventory'[dir] = inventory[dir]
            /\ Len(dir) = 0 =>
                  OtherRows(inventory'[dir], country)
                        = OtherRows(inventory[dir], country)]_vars

\* C3's case: region B of a country has been ingested after region A of it, and
\* the country's inventory holds A's row before B's.
C3_Witness ==
    /\ pc = "idle"
    /\ CountryDir(country) \in DOMAIN inventory
    /\ LET rows == inventory[CountryDir(country)]
       IN  /\ Len(rows) = 2
           /\ rows[1].name # region
           /\ rows[2].name = region
           /\ rows[1].max_lat # rows[2].max_lat

\* The rows the latest run gave the file `path`: those of the localities it wrote
\* there, in the order of writing.
RECURSIVE RowsWritten(_, _)
RowsWritten(path, i) ==
    IF i > Len(collector.addresses) THEN <<>>
    ELSE (IF db_paths[i] = path
          THEN LocalityRows(collector.addresses[i].records, nodes_dict)
          ELSE <<>>) \o RowsWritten(path, i + 1)

\* C4: after a run, every locality file of its region holds the surviving
\* addresses of that run and no other row, and the region inventory names each
\* locality once and only localities of that run.
C4_RunOverwrites ==
    Finished =>
        /\ \A path \in DOMAIN locality_db :
              SubSeq(path, 1, 2) = OutputDir(country, region) =>
                  locality_db[path].rows = RowsWritten(path, 1)
        /\ LET rows == InventoryRows(inventory, OutputDir(country, region))
           IN  /\ \A i, j \in DOMAIN rows : rows[i].name = rows[j].name => i = j
               /\ \A i \in DOMAIN rows :
                     \E k \in DOMAIN collector.addresses :
                        collector.addresses[k].locality = rows[i].name

\* Points of the plane, on a grid of half degrees.
Points == {<<Rat(a, 2), Rat(b, 2)>> : a, b \in 0..4}

StrictlyInside(row, lat, lon) ==
    /\ RatLess(row.min_lat, lat) /\ RatLess(lat, row.max_lat)
    /\ RatLess(row.min_lon, lon) /\ RatLess(lon, row.max_lon)

\* The row of the locality an answer of get_address names has the point in its box.
ReportedBoxContains(address, lat, lon) ==
    \E row \in Range(InventoryRows(inventory, OutputDir(address.country, address.region))) :
        row.name = address.locality /\ Between(row, lat, lon)

\* C5: for a point inside the box of a locality row whose table is not empty
\* (here: strictly inside, the narrowest reading of "inside"), get_address finds
\* an address, in a locality whose box holds the point.
C5_ReverseFindsLocality ==
    pc = "idle" =>
        \A dir \in DOMAIN inventory : Len(dir) = 2 =>
            \A row \in Range(inventory[dir]) : TableRows(row.path) # <<>> =>
                \A P \in Points : StrictlyInside(row, P[1], P[2]) =>
                    LET found == get_address(inventory, locality_db, P[1], P[2])
                    IN  /\ found.address # None
                        /\ ReportedBoxContains(found.address[1], P[1], P[2])

\* The addresses stored under a country: the rows of the tables its regions'
\* inventories point to, each with the locality name of the pointing row.
StoredAddresses(country_dir) ==
    UNION { UNION { { [locality |-> lrow.name, path |-> lrow.path, index |-> i,
                       row |-> TableRows(lrow.path)[i]] :
                        i \in DOMAIN TableRows(lrow.path) } :
                    lrow \in Range(InventoryRows(inventory, rrow.path)) } :
            rrow \in Range(InventoryRows(inventory, country_dir)) }

\* The only stored address of its locality name, street and house number.
UniqueKey(A, country_dir) ==
    \A B \in StoredAddresses(country_dir) :
        ( /\ B.locality = A.locality
          /\ B.row.street = A.row.street
          /\ B.row.housenumber = A.row.housenumber )
        => (B.path = A.path /\ B.index = A.index)

\* C6: get_coordinates on the country, locality, street and house number of a
\* stored address returns the stored coordinate (here for the addresses that no
\* other stored address shares the locality name, street and house number with).
C6_ForwardFindsAddress ==
    pc = "idle" =>
        \A crow \in Range(InventoryRows(inventory, RESULTS_FOLDERPATH)) :
            \A A \in StoredAddresses(crow.path) : UniqueKey(A, crow.path) =>
                LET found == get_coordinates(inventory, locality_db,
                                AddressStr(crow.name, A.locality, A.row.street,
                                           A.row.housenumber))
                IN  /\ found.result # None
                    /\ found.result[1].latitude = A.row.latitude
                    /\ found.result[1].longitude = A.row.longitude

\* C7: after a run, every locality with an address that has a located node has a
\* row in the region inventory that points to the file written for it.
C7_InventoryPointsToWrittenTable ==
    Finished =>
        \A i \in DOMAIN collector.addresses :
            LocalityRows(collector.addresses[i].records, nodes_dict) # <<>> =>
                \E row \in Range(InventoryRows(inventory, OutputDir(country, region))) :
                    /\ row.name = collector.addresses[i].locality
                    /\ row.path = db_paths[i]

FileNameChars == KeptChars \ {"a_ogonek"}

\* C8: the identifier of a locality name is the same whenever it is computed
\* (now, as when the locality's file was written), is not empty, and is made of
\* a-z and _ if a character of the name is kept.
C8_IdentifierIsPure ==
    \A i \in DOMAIN db_paths :
        LET name == collector.addresses[i].locality
            written == db_paths[i][3]
            again == convert_polish_locality_name_to_restricted_in_filesystem(name, clock)
        IN  /\ again = written
            /\ again # <<>>
            /\ convert_chars(lower(name)) # <<>> => Range(again) \subseteq FileNameChars

\* A record of collector.addresses with a reference that nodes_dict locates.
Resolved(record) == \E i \in DOMAIN record[3] : record[3][i] \in DOMAIN nodes_dict

\* The records of the localities whose file, by `paths`, is `path`, in order.
RECURSIVE RecordsAt(_, _, _)
RecordsAt(paths, path, i) ==
    IF i > Len(paths) THEN <<>>
    ELSE (IF paths[i] = path THEN collector.addresses[i].records ELSE <<>>)
            \o RecordsAt(paths, path, i + 1)

\* The located references of a record: how many, and the sum of their coordinates.
RECURSIVE LocatedCount(_, _)
LocatedCount(refs, i) ==
    IF i > Len(refs) THEN 0
    ELSE (IF refs[i] \in DOMAIN nodes_dict THEN 1 ELSE 0) + LocatedCount(refs, i + 1)

RECURSIVE LocatedSum(_, _, _)
LocatedSum(refs, axis, i) ==
    IF i > Len(refs) THEN Real(0)
    ELSE RatAdd(IF refs[i] \in DOMAIN nodes_dict THEN nodes_dict[refs[i]][axis]
                ELSE Real(0),
                LocatedSum(refs, axis, i + 1))

IsMean(value, refs, axis) ==
    RatMul(value, Real(LocatedCount(refs, 1))) = LocatedSum(refs, axis, 1)

\* C9: process_addresses_to_db adds to a locality file one row for each address
\* with a located reference, at the mean of its located references, and no row
\* for an address without one; and the box create_inventory_db then gives the
\* locality is the envelope of the rows of that file.
C9_RowPerResolvedAddress ==
    [][ /\ (pc = "write" /\ pc' = "inventory") =>
              \A path \in DOMAIN locality_db' :
                  LET before == TableRows(path)
                      after == locality_db'[path].rows
                      records == SelectSeq(RecordsAt(db_paths', path, 1), Resolved)
                  IN  /\ Len(after) = Len(before) + Len(records)
                      /\ SubSeq(after, 1, Len(before)) = before
                      /\ \A k \in DOMAIN records :
                            LET row == after[Len(before) + k]
                            IN  /\ row.street = records[k][1]
                                /\ row.housenumber = records[k][2]
                                /\ IsMean(row.latitude, records[k][3], 1)
                                /\ IsMean(row.longitude, records[k][3], 2)
        /\ (pc = "inventory" /\ pc' = "country") =>
              LET dir == OutputDir(country, region)
                  before == InventoryRows(inventory, dir)
                  after == inventory'[dir]
              IN  \A k \in (Len(before) + 1)..Len(after) :
                      RowBox(after[k]) = EnvelopeOf(CoordsOfLocality(after[k].path))
      ]_vars

\* C9's case: a locality with an address of three references of which two are
\* located and an address whose only reference is not, written and inventoried.
C9_Witness ==
    /\ pc = "country"
    /\ \E i \in DOMAIN collector.addresses :
          LET records == collector.addresses[i].records
          IN  /\ \E k \in DOMAIN records : ~Resolved(records[k])
              /\ \E k \in DOMAIN records :
                    /\ LocatedCount(records[k][3], 1) = 2
                    /\ Len(records[k][3]) = 3
              /\ Len(TableRows(db_paths[i])) = 1
              /\ \E row \in Range(inventory[OutputDir(country, region)]) :
                    row.path = db_paths[i] /\ row.max_lat = Real(1)

NoNullBounds ==
    \A dir \in DOMAIN inventory : \A row \in Range(inventory[dir]) :
        None \notin {row.min_lat, row.max_lat, row.min_lon, row.max_lon}

\* C10: no row of any inventory has a NULL bound; create_inventory_db adds no row
\* for a locality whose file has no address; and a run whose region inventory has
\* no row writes nothing to the country inventory nor to the global one.
C10_NoNullBounds ==
    /\ []NoNullBounds
    /\ [][ /\ (pc = "inventory" /\ pc' = "country") =>
                 LET dir == OutputDir(country, region)
                 IN  \A k \in (Len(InventoryRows(inventory, dir)) + 1)..Len(inventory'[dir]) :
                        TableRows(inventory'[dir][k].path) # <<>>
           /\ (pc = "country" /\ InventoryRows(inventory, OutputDir(country, region)) = <<>>) =>
                 (inventory' = inventory /\ pc' = "idle")
         ]_vars

\* C10's case: a run has written a locality file without any address, its region
\* inventory has no row, and the country has no inventory.
C10_Witness ==
    /\ Finished
    /\ db_paths # <<>>
    /\ \A i \in DOMAIN db_paths : TableRows(db_paths[i]) = <<>>
    /\ OutputDir(country, region) \in DOMAIN inventory
    /\ inventory[OutputDir(country, region)] = <<>>
    /\ CountryDir(country) \notin DOMAIN inventory
    /\ RESULTS_FOLDERPATH \notin DOMAIN inventory

(***************************************************************************)
(* C14: what the two passes keep of an extract.                            *)
(***************************************************************************)
Qualifies(w) == {"addr:street", "addr:housenumber", "addr:city"} \subseteq DOMAIN w.tags

\* The node IDs that the qualifying ways of an extract reference.
WantedIds(e) == UNION {Range(e.ways[i].nodes) : i \in {k \in DOMAIN e.ways : Qualifies(e.ways[k])}}

\* The node IDs that occur in an extract with a valid location.
LocatedIds(e) == {e.nodes[i].id : i \in {k \in DOMAIN e.nodes : e.nodes[k].valid}}

\* How many address records of `locality` equal `record`.
CollectedCount(addresses, locality, record) ==
    Cardinality({<<i, j>> \in (DOMAIN addresses) \X (1..MaxWays) :
                    /\ addresses[i].locality = locality
                    /\ j \in DOMAIN addresses[i].records
                    /\ addresses[i].records[j] = record})

\* How many qualifying ways of the extract carry that locality and that record.
QualifyingCount(e, locality, record) ==
    Cardinality({i \in DOMAIN e.ways :
                    /\ Qualifies(e.ways[i])
                    /\ e.ways[i].tags["addr:city"] = locality
                    /\ <<e.ways[i].tags["addr:street"], e.ways[i].tags["addr:housenumber"],
                         e.ways[i].nodes>> = record})

CollectedTotal(addresses) ==
    Cardinality({<<i, j>> \in (DOMAIN addresses) \X (1..MaxWays) :
                    j \in DOMAIN addresses[i].records})

\* C14: the first pass collects one address record per way that carries the three
\* tags and wants exactly the nodes those ways reference; the second pass records
\* exactly the wanted nodes that the extract holds with a valid location.
C14_ResolvedKeysExact ==
    [][ /\ (pc = "first_pass" /\ pc' = "second_pass") =>
              /\ collector'.node_refs = WantedIds(source)
              /\ CollectedTotal(collector'.addresses)
                    = Cardinality({i \in DOMAIN source.ways : Qualifies(source.ways[i])})
              /\ \A i \in DOMAIN source.ways :
                    Qualifies(source.ways[i]) =>
                        LET locality == source.ways[i].tags["addr:city"]
                            record == <<source.ways[i].tags["addr:street"],
                                        source.ways[i].tags["addr:housenumber"],
                                        source.ways[i].nodes>>
                        IN  CollectedCount(collector'.addresses, locality, record)
                                = QualifyingCount(source, locality, record)
        /\ (pc = "second_pass" /\ pc' = "write") =>
              DOMAIN nodes_dict' = WantedIds(source) \cap LocatedIds(source)
      ]_vars

\* C14 witness: after the two passes, node 1 is recorded, node 3 is wanted but has
\* no valid location, and the located nodes 2 and 4 are not wanted and not recorded.
C14_Witness ==
    /\ pc = "write"
    /\ 1 \in DOMAIN nodes_dict
    /\ 3 \in collector.node_refs /\ 3 \notin DOMAIN nodes_dict
    /\ {2, 4} \cap (collector.node_refs \cup DOMAIN nodes_dict) = {}

(***************************************************************************)
(* C15: one address table per locality name.                               *)
(***************************************************************************)
\* C15: in a region's inventory, rows of different locality names point to
\* different address tables.
C15_NoSharedTable ==
    \A dir \in DOMAIN inventory :
        Len(dir) = 2 =>
            \A i, j \in DOMAIN inventory[dir] :
                inventory[dir][i].name # inventory[dir][j].name
                    => inventory[dir][i].path # inventory[dir][j].path

(***************************************************************************)
(* C11: the reverse lookup stops at the first level that yields nothing.   *)
(***************************************************************************)
Levels == <<"find_country", "find_region", "find_locality", "find_nearest_address">>

LevelMessage ==
    << "ER - Could not determine country for given coordinates.",
       "ER - Could not determine region for given coordinates.",
       "ER - Could not determine locality for given coordinates (city, town, village, etc).",
       "ER - Could not determine address for given coordinates." >>

BoxContains(row, lat, lon) ==
    /\ RatLeq(row.min_lat, lat) /\ RatLeq(lat, row.max_lat)
    /\ RatLeq(row.min_lon, lon) /\ RatLeq(lon, row.max_lon)

\* The rows of the inventory in `dir` whose box holds the point, by position.
Candidates(dir, lat, lon) ==
    IF dir \notin DOMAIN inventory THEN {}
    ELSE {i \in DOMAIN inventory[dir] : BoxContains(inventory[dir][i], lat, lon)}

\* The path that level i hands to the next level when it is given `at`: that of
\* the earliest candidate row, or of the file itself when it holds an address;
\* <<>> when the level yields no row or its file is absent.
Yield(i, at, lat, lon) ==
    IF i < 4
    THEN LET C == Candidates(at, lat, lon)
         IN  IF C = {} THEN <<>>
             ELSE << inventory[at][CHOOSE c \in C : \A d \in C : c <= d].path >>
    ELSE IF at \in DOMAIN locality_db /\ locality_db[at].rows # <<>> THEN <<at>>
    ELSE <<>>

\* C11: when get_address has returned, the lookups made are the levels in their
\* order, each once, each given the first candidate row of the level before; the
\* last lookup made is the first level that yields no row (or whose file is
\* absent), the outcome is then "not found" with that level's message; only when
\* all four levels yield a row is an address returned.
C11_ShortCircuit ==
    (tool.name = "address_finder" /\ tool.outcome # <<>>) =>
        LET lat == tool.locals["lat"]
            lon == tool.locals["lon"]
            calls == tool.calls
            k == Len(calls)
        IN  /\ k \in 1..4
            /\ \A i \in 1..k : calls[i].fn = Levels[i]
            /\ calls[1].at = RESULTS_FOLDERPATH
            /\ \A i \in 1..(k - 1) :
                  /\ Yield(i, calls[i].at, lat, lon) # <<>>
                  /\ calls[i + 1].at = Yield(i, calls[i].at, lat, lon)[1]
            /\ IF Yield(k, calls[k].at, lat, lon) = <<>>
               THEN /\ tool.outcome[1].address = None
                    /\ tool.outcome[1].msg = LevelMessage[k]
               ELSE /\ k = 4
                    /\ tool.outcome[1].address # None

\* C11 witness: the lookup ended "locality not found" after three lookups,
\* although a second country row also holds the point and was never tried.
C11_Witness ==
    /\ tool.name = "address_finder" /\ tool.pc = "exit"
    /\ tool.outcome # <<>>
    /\ tool.outcome[1].address = None
    /\ tool.outcome[1].msg = LevelMessage[3]
    /\ Len(tool.calls) = 3
    /\ Cardinality(Candidates(RESULTS_FOLDERPATH, tool.locals["lat"], tool.locals["lon"])) > 1

(***************************************************************************)
(* C12: the exit code of the lookup tools.                                 *)
(***************************************************************************)
\* The tool's outcome is "not found".
Failed(t) ==
    /\ t.outcome # <<>>
    /\ IF t.name = "address_finder" THEN t.outcome[1].address = None
       ELSE t.outcome[1].result = None

\* C12: a lookup tool that ends on a usage error or on a "not found" outcome
\* ends with exit code 1.
C12_FailureExitsNonZero ==
    (tool.pc = "exit" /\ (tool.outcome = <<>> \/ Failed(tool))) => tool.exit_code = <<1>>

(***************************************************************************)
(* C13: the forward lookup's input of other than four fields.              *)
(***************************************************************************)
FieldCount(text) == 1 + Cardinality({i \in DOMAIN text : text[i] = ","})

\* C13: once parse_address has run, a text of other than four comma-separated
\* fields has ended the process with exit code 1, no lookup made and no outcome;
\* a text of four fields has not ended it with exit code 1.
C13_MalformedIsFatal ==
    (/\ tool.name = "find_coordinates"
     /\ tool.argv # <<>>
     /\ tool.pc # "parse_address") =>
        IF FieldCount(tool.argv[1]) # 4
        THEN /\ tool.pc = "exit"
             /\ tool.exit_code = <<1>>
             /\ tool.calls = <<>>
             /\ tool.outcome = <<>>
        ELSE /\ tool.exit_code # <<1>>
             /\ tool.pc = "exit" => tool.outcome # <<>>

\* C13 witness: a text of two fields ended the process with exit code 1 while a
\* global inventory was there to be read.
C13_Witness ==
    /\ tool.name = "find_coordinates" /\ tool.pc = "exit"
    /\ tool.argv # <<>>
    /\ FieldCount(tool.argv[1]) = 2
    /\ tool.exit_code = <<1>>
    /\ RESULTS_FOLDERPATH \in DOMAIN inventory

====
